---- MODULE Spec2Model ----
(***************************************************************************)
(* Model of exporter.py: the AppMetrics poll loop (run_metrics_loop and    *)
(* its three sub-steps fetch_dvr, fetch_recordings, fetch_clients), the    *)
(* Prometheus gauges it writes, and the scrape-serving thread started by   *)
(* main() that reads them concurrently.                                    *)
(*                                                                         *)
(* Python strings are sequences of one-character strings.  A JSON value is *)
(* a record [t, v]: t is "str" for a JSON string (v its characters), "num" *)
(* for a number (v the characters of its Python str()), "null" for null,   *)
(* "obj" for a mapping (v its <<key, value>> pairs in document order) and  *)
(* "arr" for an array (v its elements).  A gauge family is the set of its  *)
(* label combinations: every entry the code sets has the value 1.          *)
(***************************************************************************)
EXTENDS Integers, Sequences, FiniteSets, TLC

VARIABLES
    pc,           \* where the poll loop (main thread) is
    err,          \* the uncaught exception that ended the main thread, or NoErr
    dvr,          \* local `dvr` of the running sub-step: the HTTP response
    status_data,  \* local `status_data` of the running sub-step
    todo,         \* the items the running for-loop has not visited yet
    streams,      \* Gauge channels_streams: set of label combinations (value 1)
    recordings,   \* Gauge channels_recordings: set of label combinations
    clients,      \* Gauge channels_clients: set of label combinations
    shows,        \* Gauge channels_shows
    airings,      \* Gauge channels_airings
    geodb,        \* the geolite2 database: what lookup(ip) does for each ip
    lookups,      \* history: the ips the last fetch_dvr pass called geolite2.lookup with
    done,         \* history: the sub-steps that returned normally in this cycle
    left,         \* history: what each of them left in its family at its return
    used,         \* history: the response the last sub-step decoded, until the next GET
    snap          \* history: the registry when the running sub-step started

vars == <<pc, err, dvr, status_data, todo, streams, recordings, clients,
          shows, airings, geodb, lookups, done, left, used, snap>>

(***************************************************************************)
(* Strings                                                                 *)
(***************************************************************************)
Digits == {"0", "1", "2", "3", "4", "5", "6", "7", "8", "9"}

Min(a, b) == IF a <= b THEN a ELSE b

\* s[i..j] as a sequence (empty when j < i)
Slice(s, i, j) == [k \in 1..(j - i + 1) |-> s[i + k - 1]]

\* [0-9]+ at position i, greedy: the index after the run, or i when no digit is there
DigitsEnd(s, i) ==
    LET end[j \in 1..(Len(s) + 1)] ==
            IF j <= Len(s) /\ s[j] \in Digits THEN end[j + 1] ELSE j
    IN  end[i]

\* (?:\.[0-9]+){n} at position i: the index after the match, or 0 when it fails.
\* A digit run is always followed by a non-digit or the end, so giving back
\* digits of an earlier group can never make a later "\." match.
DotGroupsEnd(s, i, n) ==
    LET end[p \in (1..(Len(s) + 1)) \X (0..n)] ==
            IF p[2] = 0 THEN p[1]
            ELSE IF p[1] <= Len(s) /\ s[p[1]] = "." /\ DigitsEnd(s, p[1] + 1) > p[1] + 1
                 THEN end[<<DigitsEnd(s, p[1] + 1), p[2] - 1>>]
                 ELSE 0
    IN  end[<<i, n>>]

\* [0-9]+(?:\.[0-9]+){3} anchored at i: index after the match, or 0
IpMatchEnd(s, i) ==
    IF DigitsEnd(s, i) > i THEN DotGroupsEnd(s, DigitsEnd(s, i), 3) ELSE 0

\* ch[0-9] anchored at i, one digit only (a faulty variant, C14 must tell it apart)
ChannelMatchEndOneDigit(s, i) ==
    IF i + 1 <= Len(s) /\ s[i] = "c" /\ s[i + 1] = "h" /\ DigitsEnd(s, i + 2) > i + 2
    THEN i + 3
    ELSE 0

\* ch[0-9]+ anchored at i: index after the match, or 0
ChannelMatchEnd(s, i) ==
    IF i + 1 <= Len(s) /\ s[i] = "c" /\ s[i + 1] = "h" /\ DigitsEnd(s, i + 2) > i + 2
    THEN DigitsEnd(s, i + 2)
    ELSE 0

LOOPBACK == <<"1", "2", "7", ".", "0", ".", "0", ".", "1">>
CH0 == <<"c", "h", "0">>
UNKNOWN == <<"u", "n", "k", "n", "o", "w", "n">>
NONE == <<"N", "o", "n", "e">>

\* re.findall(...)[-1] in place of re.search(...).group(): the last match (a
\* faulty variant, C13 must tell it apart)
ExtractIpLast(s) ==
    LET starts == {i \in 1..Len(s) : IpMatchEnd(s, i) > 0}
    IN  IF starts = {} THEN LOOPBACK
        ELSE CHOOSE x \in {Slice(s, i, IpMatchEnd(s, i) - 1) :
                               i \in {j \in starts : \A k \in starts : j >= k}} : TRUE

\* re.search(r'[0-9]+(?:\.[0-9]+){3}', status); ip.group() if ip else '127.0.0.1':
\* the match at the least start
ExtractIp(s) ==
    LET starts == {i \in 1..Len(s) : IpMatchEnd(s, i) > 0}
    IN  IF starts = {} THEN LOOPBACK
        ELSE CHOOSE x \in {Slice(s, i, IpMatchEnd(s, i) - 1) :
                               i \in {j \in starts : \A k \in starts : j <= k}} : TRUE

\* re.search(r'ch[0-9]+', text); channel.group() if channel else 'ch0'
ExtractChannel(s) ==
    LET starts == {i \in 1..Len(s) : ChannelMatchEnd(s, i) > 0}
    IN  IF starts = {} THEN CH0
        ELSE CHOOSE x \in {Slice(s, i, ChannelMatchEnd(s, i) - 1) :
                               i \in {j \in starts : \A k \in starts : j <= k}} : TRUE

\* s.split(sep): the pieces between the separators, left to right
RECURSIVE SplitFrom(_, _, _)
SplitFrom(s, sep, piece) ==
    IF s = <<>> THEN <<piece>>
    ELSE IF Head(s) = sep THEN <<piece>> \o SplitFrom(Tail(s), sep, <<>>)
    ELSE SplitFrom(Tail(s), sep, Append(piece, Head(s)))

Split(s, sep) == SplitFrom(s, sep, <<>>)

\* info.rsplit('-', 1)[0] in place of info.split('-')[0] (a faulty variant, C12
\* must tell it apart)
ExtractStatusLastDash(s) ==
    LET dashes == {i \in 1..Len(s) : s[i] = "-"}
    IN  IF dashes = {} THEN UNKNOWN
        ELSE Slice(s, 1, (CHOOSE j \in dashes : \A k \in dashes : j >= k) - 1)

\* info.split('-')[0] if '-' in info else 'unknown'
ExtractStatus(s) ==
    IF \E i \in 1..Len(s) : s[i] = "-" THEN Split(s, "-")[1] ELSE UNKNOWN

(***************************************************************************)
(* JSON values and label values                                            *)
(***************************************************************************)
Str(s) == [t |-> "str", v |-> s]
Num(s) == [t |-> "num", v |-> s]
Null == [t |-> "null", v |-> <<>>]

\* str(value), which prometheus_client applies to every label value
LabelStr(x) == IF x.t = "null" THEN NONE ELSE x.v

\* the pairs of a JSON object are <<key, value>>, in document order
Obj(pairs) == [t |-> "obj", v |-> pairs]
Arr(elems) == [t |-> "arr", v |-> elems]
Nil == [t |-> "nil", v |-> <<>>]

HasKey(o, k) == \E i \in 1..Len(o.v) : o.v[i][1] = k

\* dict.get(k, default)
Get(o, k, default) ==
    IF HasKey(o, k) THEN o.v[CHOOSE i \in 1..Len(o.v) : o.v[i][1] = k][2]
    ELSE default

\* int literal of a JSON number, as Gauge.set(float(value)) stores it
RECURSIVE NumVal(_)
NumVal(s) ==
    IF s = <<>> THEN 0
    ELSE 10 * NumVal(SubSeq(s, 1, Len(s) - 1))
         + (CHOOSE d \in 0..9 : ToString(d) = s[Len(s)])

(***************************************************************************)
(* What the upstream API may answer                                        *)
(***************************************************************************)
\* the most entries one response carries (activities, recordings, clients)
MaxEntries == 2

SeqsUpTo(S, n) == UNION {[1..k -> S] : k \in 0..n}

\* "ch12 from 10.0.0.5", "idle", and a value that is no string
StatusValues ==
    { Str(<<"c","h","1","2"," ","f","r","o","m"," ","1","0",".","0",".","0",".","5">>),
      Str(<<"i","d","l","e">>),
      Null }

Guides ==
    { Obj(<< <<"num_shows", Num(<<"4","0">>)>>, <<"num_airings", Num(<<"9","0","0">>)>> >>),
      Obj(<< <<"num_shows", Num(<<"4","0">>)>> >>) }

\* objects of /dvr: activity keys are "1", "2", ...; guide present or not
DvrObjects ==
    LET acts == {Obj([i \in 1..Len(q) |-> <<ToString(i), q[i]>>]) :
                    q \in SeqsUpTo(StatusValues, MaxEntries)}
    IN  {Obj(<< <<"activity", a>>, <<"guide", g>> >>) : a \in acts, g \in Guides}
        \cup {Obj(<< <<"activity", a>> >>) : a \in acts}

\* "REC-ch5-details", and a value that is no string
RecInfos ==
    { Str(<<"R","E","C","-","c","h","5","-","d","e","t","a","i","l","s">>),
      Null }

\* objects of /dvr/programs: recording name -> info
RecObjects ==
    {Obj([i \in 1..Len(q) |-> <<"MyShow" \o ToString(i), q[i]>>]) :
        q \in SeqsUpTo(RecInfos, MaxEntries)}

ClientFields ==
    <<"app_build", "app_bundle", "app_version", "connected", "device", "hostname",
      "id", "machine_id", "platform", "remote_ip", "seen_at", "seen_from">>

\* {"id": "abc", "remote_ip": "1.2.3.4"},
\* {"id": "abc", "remote_ip": "1.2.3.4", "device": "None"} and
\* {"id": "abc", "remote_ip": null}
ClientObjects ==
    LET id == <<"id", Str(<<"a","b","c">>)>>
        ip == <<"remote_ip", Str(<<"1",".","2",".","3",".","4">>)>>
    IN  { Obj(<<id, ip>>),
          Obj(<<id, <<"device", Str(NONE)>>, ip>>),
          Obj(<<id, <<"remote_ip", Null>> >>) }

ClientArrays == {Arr(q) : q \in SeqsUpTo(ClientObjects, MaxEntries)}

\* decodable bodies that are not the documented shape: {"error": "down"} and []
ErrorObject == Obj(<< <<"error", Str(<<"d","o","w","n">>)>> >>)
Undocumented == {ErrorObject, Arr(<<>>)}

\* an HTTP response: status code, whether the body decodes as JSON, its value
Response(code, ok, val) == [status_code |-> code, json_ok |-> ok, body |-> val]
NoResponse == Response(0, FALSE, Nil)

StatusCodes == {200, 500}
Success == 200..299

\* what requests.get may return: a success with any body, a non-success with a
\* body that is no JSON or is JSON of an undocumented shape
Responses(documented) ==
    {Response(c, TRUE, b) : c \in StatusCodes \cap Success, b \in documented \cup Undocumented}
    \cup {Response(c, TRUE, b) : c \in StatusCodes \ Success, b \in Undocumented}
    \cup {Response(c, FALSE, Nil) : c \in StatusCodes}

\* the ips the inputs can make fetch_dvr look up
LookupIps ==
    {ExtractIp(x.v) : x \in {y \in StatusValues : y.t = "str"}} \ {LOOPBACK}

\* geolite2.lookup(ip): raises, returns None, or returns a match with a location
GeoOutcomes == {"raise", "none", "found"}
GeoLocation == <<Num(<<"5","1",".","5">>), Num(<<"-","0",".","1">>)>>

(***************************************************************************)
(* Records derived from one response                                       *)
(***************************************************************************)
\* geolite2.lookup(ip) for an ip the database does not know returns None
GeoOutcome(ip) == IF ip \in DOMAIN geodb THEN geodb[ip] ELSE "none"

\* line 75 without its loopback test (a faulty variant, C10 must tell it apart)
CallsLookupAlways(ip) == ip # <<>>

\* the guard of line 75: the backend is called for this ip
CallsLookup(ip) == ip # <<>> /\ ip # LOOPBACK

\* lines 74-81: latitude, longitude
Coordinates(ip) ==
    IF CallsLookup(ip) /\ GeoOutcome(ip) = "found" THEN GeoLocation ELSE <<Null, Null>>

\* lines 70-88 with ip and channel left empty when their pattern does not
\* match, so that the guard of line 87 fails (a faulty variant, C20 must tell it
\* apart)
StreamLabelsNoDefaults(status) ==
    {[ip |-> ip, channel |-> channel,
      latitude |-> LabelStr(Coordinates(ip)[1]), longitude |-> LabelStr(Coordinates(ip)[2])] :
        ip \in {ExtractIp(status)} \ {<<>>, LOOPBACK},
        channel \in {ExtractChannel(status)} \ {<<>>, CH0}}

\* lines 70-88 for one activity string: the label combinations it sets, one
\* when ip and channel are both non-empty (line 87) and none otherwise
StreamLabels(status) ==
    {[ip |-> ip, channel |-> channel,
      latitude |-> LabelStr(Coordinates(ip)[1]), longitude |-> LabelStr(Coordinates(ip)[2])] :
        ip \in {ExtractIp(status)} \ {<<>>},
        channel \in {ExtractChannel(status)} \ {<<>>}}

\* lines 109-112 for one recording
RecordingLabels(name, info) ==
    [name |-> name, status |-> ExtractStatus(info), channel |-> ExtractChannel(info)]

\* lines 129-143 for one client object
ClientLabels(client) ==
    [f \in {ClientFields[i] : i \in 1..Len(ClientFields)} |-> LabelStr(Get(client, f, Null))]

\* what iterating a decoded value yields: the items of a mapping (.items()),
\* the elements of an array
Items(x) == x.v

\* `for client in status_data`: the elements of an array, the keys of a mapping
\* (a key is kept whole, as a one-element string)
Iterate(x) ==
    IF x.t = "obj" THEN [i \in 1..Len(x.v) |-> Str(<<x.v[i][1]>>)] ELSE x.v

\* guide.get('num_shows', 0) and guide.get('num_airings', 0) as the gauges store them
GuideCount(sd, field) ==
    LET guide == Get(sd, "guide", Obj(<<>>))
    IN  IF HasKey(guide, field) THEN NumVal(Get(guide, field, Null).v) ELSE 0

(***************************************************************************)
(* Initial state: AppMetrics.__init__ has created five empty gauges and    *)
(* start_http_server is serving; the loop is about to call fetch_dvr       *)
(***************************************************************************)
NoErr == [in |-> "none", exc |-> "none"]
SubSteps == {"fetch_dvr", "fetch_recordings", "fetch_clients"}
Families == {"channels_streams", "channels_recordings", "channels_clients"}
NothingUsed == [f \in SubSteps |-> Nil]
NothingLeft == [f \in SubSteps |-> {}]

Registry ==
    [streams |-> streams, recordings |-> recordings, clients |-> clients,
     shows |-> shows, airings |-> airings]

Init ==
    /\ pc = "dvr_get"
    /\ err = NoErr
    /\ dvr = NoResponse
    /\ status_data = Nil
    /\ todo = <<>>
    /\ streams = {}
    /\ recordings = {}
    /\ clients = {}
    /\ shows = 0
    /\ airings = 0
    /\ geodb \in [LookupIps -> GeoOutcomes]
    /\ lookups = {}
    /\ done = {}
    /\ left = NothingLeft
    /\ used = NothingUsed
    /\ snap = Registry

gauges == <<streams, recordings, clients, shows, airings>>
history == <<lookups, done, left, used, snap>>

\* an exception nobody catches leaves run_metrics_loop and main(): the main
\* thread ends and the process exits
Raise(fn, exc) ==
    /\ pc' = "exited"
    /\ err' = [in |-> fn, exc |-> exc]

(***************************************************************************)
(* fetch_dvr                                                               *)
(***************************************************************************)
\* line 59: requests.get raises on a network failure, else returns the
\* response whatever its status code
DvrGet ==
    /\ pc = "dvr_get"
    /\ snap' = Registry
    /\ lookups' = {}
    /\ used' = NothingUsed
    /\ \/ /\ Raise("fetch_dvr", "ConnectionError")
          /\ UNCHANGED dvr
       \/ /\ dvr' \in Responses(DvrObjects)
          /\ pc' = "dvr_json"
          /\ UNCHANGED err
    /\ UNCHANGED <<status_data, todo, gauges, geodb, done, left>>

\* lines 60-63: dvr.json(), status_data.get('activity', {})
DvrJson ==
    /\ pc = "dvr_json"
    /\ IF ~dvr.json_ok
       THEN /\ Raise("fetch_dvr", "JSONDecodeError")
            /\ UNCHANGED <<status_data, used>>
       ELSE /\ status_data' = dvr.body
            /\ used' = [used EXCEPT !["fetch_dvr"] = dvr.body]
            /\ IF dvr.body.t # "obj"
               THEN Raise("fetch_dvr", "AttributeError")
               ELSE pc' = "dvr_clear" /\ UNCHANGED err
    /\ UNCHANGED <<dvr, todo, gauges, geodb, lookups, done, left, snap>>

\* fetch_dvr without the clear() of line 66 (a faulty variant, C6 must tell it apart)
DvrClearKeepsOld ==
    /\ pc = "dvr_clear"
    /\ todo' = Items(Get(status_data, "activity", Obj(<<>>)))
    /\ pc' = "dvr_loop"
    /\ UNCHANGED <<err, dvr, status_data, gauges, geodb, history>>

\* line 66: self.streams.clear(); line 69: activities.items()
DvrClear ==
    /\ pc = "dvr_clear"
    /\ streams' = {}
    /\ todo' = Items(Get(status_data, "activity", Obj(<<>>)))
    /\ pc' = "dvr_loop"
    /\ UNCHANGED <<err, dvr, status_data, recordings, clients, shows, airings, geodb,
                   lookups, done, left, used, snap>>

\* lines 69-88 without the try/except of lines 74-81 (a faulty variant, C11
\* must tell it apart): an exception of the lookup backend leaves fetch_dvr
DvrActivityGeoUncaught ==
    /\ pc = "dvr_loop"
    /\ todo # <<>>
    /\ LET status == Head(todo)[2]
       IN  IF status.t # "str"
           THEN /\ Raise("fetch_dvr", "TypeError")
                /\ UNCHANGED <<todo, streams, lookups>>
           ELSE /\ lookups' = lookups \cup {ip \in {ExtractIp(status.v)} : CallsLookup(ip)}
                /\ IF \E ip \in {ExtractIp(status.v)} : CallsLookup(ip) /\ GeoOutcome(ip) = "raise"
                   THEN /\ Raise("fetch_dvr", "ValueError")
                        /\ UNCHANGED <<todo, streams>>
                   ELSE /\ streams' = streams \cup StreamLabels(status.v)
                        /\ todo' = Tail(todo)
                        /\ UNCHANGED <<pc, err>>
    /\ UNCHANGED <<dvr, status_data, recordings, clients, shows, airings, geodb,
                   done, left, used, snap>>

\* lines 69-88, one iteration: re.search raises TypeError for a value that is
\* no string; the lookup backend is called unless the ip is the loopback default
DvrActivity ==
    /\ pc = "dvr_loop"
    /\ todo # <<>>
    /\ LET status == Head(todo)[2]
       IN  IF status.t # "str"
           THEN /\ Raise("fetch_dvr", "TypeError")
                /\ UNCHANGED <<todo, streams, lookups>>
           ELSE /\ streams' = streams \cup StreamLabels(status.v)
                /\ lookups' = lookups \cup {ip \in {ExtractIp(status.v)} : CallsLookup(ip)}
                /\ todo' = Tail(todo)
                /\ UNCHANGED <<pc, err>>
    /\ UNCHANGED <<dvr, status_data, recordings, clients, shows, airings, geodb,
                   done, left, used, snap>>

\* line 91 run only when the response has a guide (a faulty variant, C15 must
\* tell it apart)
DvrShowsKeepsOld ==
    /\ pc = "dvr_loop"
    /\ todo = <<>>
    /\ shows' = IF HasKey(status_data, "guide") THEN GuideCount(status_data, "num_shows")
                ELSE shows
    /\ pc' = "dvr_airings"
    /\ UNCHANGED <<err, dvr, status_data, todo, streams, recordings, clients, airings,
                   geodb, history>>

\* lines 90-91: self.shows.set(guide.get('num_shows', 0))
DvrShows ==
    /\ pc = "dvr_loop"
    /\ todo = <<>>
    /\ shows' = GuideCount(status_data, "num_shows")
    /\ pc' = "dvr_airings"
    /\ UNCHANGED <<err, dvr, status_data, todo, streams, recordings, clients, airings,
                   geodb, history>>

\* a loop that calls fetch_clients right after fetch_dvr (a faulty variant, C7
\* must tell it apart)
DvrAiringsSkipsRecordings ==
    /\ pc = "dvr_airings"
    /\ airings' = GuideCount(status_data, "num_airings")
    /\ pc' = "cli_get"
    /\ dvr' = NoResponse
    /\ status_data' = Nil
    /\ done' = done \cup {"fetch_dvr"}
    /\ left' = [left EXCEPT !["fetch_dvr"] = streams]
    /\ UNCHANGED <<err, todo, streams, recordings, clients, shows, geodb,
                   lookups, used, snap>>

\* line 92: self.airings.set(guide.get('num_airings', 0)), and the return
DvrAirings ==
    /\ pc = "dvr_airings"
    /\ airings' = GuideCount(status_data, "num_airings")
    /\ pc' = "rec_get"
    /\ dvr' = NoResponse
    /\ status_data' = Nil
    /\ done' = done \cup {"fetch_dvr"}
    /\ left' = [left EXCEPT !["fetch_dvr"] = streams]
    /\ UNCHANGED <<err, todo, streams, recordings, clients, shows, geodb,
                   lookups, used, snap>>

(***************************************************************************)
(* fetch_recordings                                                        *)
(***************************************************************************)
\* line 101
RecGet ==
    /\ pc = "rec_get"
    /\ snap' = Registry
    /\ used' = NothingUsed
    /\ \/ /\ Raise("fetch_recordings", "ConnectionError")
          /\ UNCHANGED dvr
       \/ /\ dvr' \in Responses(RecObjects)
          /\ pc' = "rec_json"
          /\ UNCHANGED err
    /\ UNCHANGED <<status_data, todo, gauges, geodb, lookups, done, left>>

\* fetch_recordings with the clear() moved before the decode (a faulty variant,
\* C4 must tell it apart)
RecJsonClearsFirst ==
    /\ pc = "rec_json"
    /\ recordings' = {}
    /\ IF ~dvr.json_ok
       THEN /\ Raise("fetch_recordings", "JSONDecodeError")
            /\ UNCHANGED <<status_data, used>>
       ELSE /\ status_data' = dvr.body
            /\ used' = [used EXCEPT !["fetch_recordings"] = dvr.body]
            /\ pc' = "rec_clear"
            /\ UNCHANGED err
    /\ UNCHANGED <<dvr, todo, streams, clients, shows, airings, geodb, lookups, done, left, snap>>

\* line 102
RecJson ==
    /\ pc = "rec_json"
    /\ IF ~dvr.json_ok
       THEN /\ Raise("fetch_recordings", "JSONDecodeError")
            /\ UNCHANGED <<status_data, used>>
       ELSE /\ status_data' = dvr.body
            /\ used' = [used EXCEPT !["fetch_recordings"] = dvr.body]
            /\ pc' = "rec_clear"
            /\ UNCHANGED err
    /\ UNCHANGED <<dvr, todo, gauges, geodb, lookups, done, left, snap>>

\* line 105: self.recordings.clear()
RecClear ==
    /\ pc = "rec_clear"
    /\ recordings' = {}
    /\ pc' = "rec_for"
    /\ UNCHANGED <<err, dvr, status_data, todo, streams, clients, shows, airings,
                   geodb, history>>

\* line 108: status_data.items(), which only a mapping has
RecItems ==
    /\ pc = "rec_for"
    /\ IF status_data.t # "obj"
       THEN Raise("fetch_recordings", "AttributeError") /\ UNCHANGED todo
       ELSE todo' = Items(status_data) /\ pc' = "rec_loop" /\ UNCHANGED err
    /\ UNCHANGED <<dvr, status_data, gauges, geodb, history>>

\* lines 108-112, one iteration
RecRecording ==
    /\ pc = "rec_loop"
    /\ todo # <<>>
    /\ LET name == Head(todo)[1]
           info == Head(todo)[2]
       IN  IF info.t # "str"
           THEN /\ Raise("fetch_recordings", "TypeError")
                /\ UNCHANGED <<todo, recordings>>
           ELSE /\ recordings' = recordings \cup {RecordingLabels(name, info.v)}
                /\ todo' = Tail(todo)
                /\ UNCHANGED <<pc, err>>
    /\ UNCHANGED <<dvr, status_data, streams, clients, shows, airings, geodb, history>>

\* a loop that starts over after fetch_recordings (a faulty variant, C19 must
\* tell it apart)
RecReturnStartsOver ==
    /\ pc = "rec_loop"
    /\ todo = <<>>
    /\ pc' = "dvr_get"
    /\ dvr' = NoResponse
    /\ status_data' = Nil
    /\ done' = {}
    /\ left' = NothingLeft
    /\ UNCHANGED <<err, todo, gauges, geodb, lookups, used, snap>>

\* the loop of line 108 is exhausted: fetch_recordings returns
RecReturn ==
    /\ pc = "rec_loop"
    /\ todo = <<>>
    /\ pc' = "cli_get"
    /\ dvr' = NoResponse
    /\ status_data' = Nil
    /\ done' = done \cup {"fetch_recordings"}
    /\ left' = [left EXCEPT !["fetch_recordings"] = recordings]
    /\ UNCHANGED <<err, todo, gauges, geodb, lookups, used, snap>>

(***************************************************************************)
(* fetch_clients                                                           *)
(***************************************************************************)
\* line 121
CliGet ==
    /\ pc = "cli_get"
    /\ snap' = Registry
    /\ used' = NothingUsed
    /\ \/ /\ Raise("fetch_clients", "ConnectionError")
          /\ UNCHANGED dvr
       \/ /\ dvr' \in Responses(ClientArrays)
          /\ pc' = "cli_json"
          /\ UNCHANGED err
    /\ UNCHANGED <<status_data, todo, gauges, geodb, lookups, done, left>>

\* line 122
CliJson ==
    /\ pc = "cli_json"
    /\ IF ~dvr.json_ok
       THEN /\ Raise("fetch_clients", "JSONDecodeError")
            /\ UNCHANGED <<status_data, used>>
       ELSE /\ status_data' = dvr.body
            /\ used' = [used EXCEPT !["fetch_clients"] = dvr.body]
            /\ pc' = "cli_clear"
            /\ UNCHANGED err
    /\ UNCHANGED <<dvr, todo, gauges, geodb, lookups, done, left, snap>>

\* fetch_clients without the clear() of line 125 (a faulty variant, C16 must
\* tell it apart)
CliClearKeepsOld ==
    /\ pc = "cli_clear"
    /\ todo' = Iterate(status_data)
    /\ pc' = "cli_loop"
    /\ UNCHANGED <<err, dvr, status_data, gauges, geodb, history>>

\* line 125: self.clients.clear(); line 128: iter(status_data)
CliClear ==
    /\ pc = "cli_clear"
    /\ clients' = {}
    /\ todo' = Iterate(status_data)
    /\ pc' = "cli_loop"
    /\ UNCHANGED <<err, dvr, status_data, streams, recordings, shows, airings,
                   geodb, history>>

\* lines 128-143, one iteration: client.get exists only on a mapping
CliClient ==
    /\ pc = "cli_loop"
    /\ todo # <<>>
    /\ LET client == Head(todo)
       IN  IF client.t # "obj"
           THEN /\ Raise("fetch_clients", "AttributeError")
                /\ UNCHANGED <<todo, clients>>
           ELSE /\ clients' = clients \cup {ClientLabels(client)}
                /\ todo' = Tail(todo)
                /\ UNCHANGED <<pc, err>>
    /\ UNCHANGED <<dvr, status_data, streams, recordings, shows, airings, geodb, history>>

\* a loop that starts the next cycle without the sleep of line 50 (a faulty
\* variant, C8 must tell it apart)
CliReturnNoSleep ==
    /\ pc = "cli_loop"
    /\ todo = <<>>
    /\ pc' = "dvr_get"
    /\ dvr' = NoResponse
    /\ status_data' = Nil
    /\ done' = done \cup {"fetch_clients"}
    /\ left' = [left EXCEPT !["fetch_clients"] = clients]
    /\ UNCHANGED <<err, todo, gauges, geodb, lookups, used, snap>>

\* the loop of line 128 is exhausted: fetch_clients returns
CliReturn ==
    /\ pc = "cli_loop"
    /\ todo = <<>>
    /\ pc' = "sleep"
    /\ dvr' = NoResponse
    /\ status_data' = Nil
    /\ done' = done \cup {"fetch_clients"}
    /\ left' = [left EXCEPT !["fetch_clients"] = clients]
    /\ UNCHANGED <<err, todo, gauges, geodb, lookups, used, snap>>

(***************************************************************************)
(* run_metrics_loop                                                        *)
(***************************************************************************)
\* line 50: time.sleep(self.polling_interval_seconds), then the next cycle
Sleep ==
    /\ pc = "sleep"
    /\ pc' = "dvr_get"
    /\ done' = {}
    /\ left' = NothingLeft
    /\ used' = NothingUsed
    /\ UNCHANGED <<err, dvr, status_data, todo, gauges, geodb, lookups, snap>>

(***************************************************************************)
(* The scrape-serving thread                                               *)
(***************************************************************************)
Family(f) ==
    CASE f = "channels_streams" -> streams
      [] f = "channels_recordings" -> recordings
      [] f = "channels_clients" -> clients

\* start_http_server serves from a daemon thread: it answers while the
\* process lives, and the process lives while the main thread is in the loop
ServerAlive == pc # "exited"

\* the poll loop is between the clear() of family f and the end of its repopulation
Repopulating(f) ==
    CASE f = "channels_streams" -> pc = "dvr_loop"
      [] f = "channels_recordings" -> pc \in {"rec_for", "rec_loop"}
      [] f = "channels_clients" -> pc = "cli_loop"

\* the items a loop gets through: those before the first item whose value is
\* no string, which makes re.search raise
RECURSIVE StrItems(_)
StrItems(items) ==
    IF items = <<>> \/ Head(items)[2].t # "str" THEN <<>>
    ELSE <<Head(items)>> \o StrItems(Tail(items))

\* the clients a loop gets through: those before the first element that is no
\* mapping, which has no get()
RECURSIVE ObjElems(_)
ObjElems(elems) ==
    IF elems = <<>> \/ Head(elems).t # "obj" THEN <<>>
    ELSE <<Head(elems)>> \o ObjElems(Tail(elems))

\* lines 69-88 over a sequence of activity items
StreamsOf(items) ==
    LET q == StrItems(items)
    IN  UNION {StreamLabels(q[i][2].v) : i \in 1..Len(q)}

\* lines 108-112 over a sequence of recording items
RecordingsOf(items) ==
    LET q == StrItems(items)
    IN  {RecordingLabels(q[i][1], q[i][2].v) : i \in 1..Len(q)}

\* lines 128-143 over a sequence of clients
ClientsOf(elems) ==
    LET q == ObjElems(elems)
    IN  {ClientLabels(q[i]) : i \in 1..Len(q)}

\* the entries of family f when the sub-step that is repopulating it started
Before(f) ==
    CASE f = "channels_streams" -> snap.streams
      [] f = "channels_recordings" -> snap.recordings
      [] f = "channels_clients" -> snap.clients

\* the entries the running repopulation of f leaves in it
After(f) ==
    CASE f = "channels_streams" -> streams \cup StreamsOf(todo)
      [] f = "channels_recordings" ->
            IF pc = "rec_for"
            THEN (IF status_data.t = "obj" THEN RecordingsOf(Items(status_data)) ELSE {})
            ELSE recordings \cup RecordingsOf(todo)
      [] f = "channels_clients" -> clients \cup ClientsOf(todo)

\* one scrape collects every family, each under the family's own lock, which
\* clear() and labels() take for the one call only: Observed(f) is what it
\* reads of family f; a scrape writes nothing
Observed(f) == Family(f)

Scrape ==
    /\ ServerAlive
    /\ UNCHANGED vars

Next ==
    \/ DvrGet \/ DvrJson \/ DvrClear \/ DvrActivity \/ DvrShows \/ DvrAirings
    \/ RecGet \/ RecJson \/ RecClear \/ RecItems \/ RecRecording \/ RecReturn
    \/ CliGet \/ CliJson \/ CliClear \/ CliClient \/ CliReturn
    \/ Sleep
    \/ Scrape

Spec == Init /\ [][Next]_vars

\* the steps the main thread takes by itself: everything but the three
\* requests.get calls, which have no timeout and return when the peer answers
Compute ==
    \/ DvrJson \/ DvrClear \/ DvrActivity \/ DvrShows \/ DvrAirings
    \/ RecJson \/ RecClear \/ RecItems \/ RecRecording \/ RecReturn
    \/ CliJson \/ CliClear \/ CliClient \/ CliReturn
    \/ Sleep

\* the loop with a lookup database that knows every ip (that no outcome of a
\* lookup stops fetch_dvr is checked apart, for every outcome); the main thread
\* is not starved, and time.sleep returns
FairInit == Init /\ \A ip \in LookupIps : geodb[ip] = "found"
FairSpec == FairInit /\ [][Next]_vars /\ WF_vars(Compute)

\* the main thread is inside requests.get
Fetching == pc \in {"dvr_get", "rec_get", "cli_get"}

(***************************************************************************)
(* One pass of fetch_dvr or of fetch_recordings over arbitrary text: the    *)
(* loop has received a success response whose one activity, or one          *)
(* recording, carries any string over a small alphabet, or whose two        *)
(* activities carry two of the sample strings                               *)
(***************************************************************************)
\* the longest text over the characters of an ip, and over those of a channel
MaxIpText == 8
MaxText == 5

IpChars == {"1", ".", "h"}
ChannelChars == {"c", "h", "1", "-"}

\* "ch12 from 999.999.999.999", "1.2.3.4 to 10.0.0.5", "ch1ch2 10.0.0.5",
\* "REC-ch5-details", "a-b-c", "idle"
Samples ==
    { <<"c","h","1","2"," ","f","r","o","m"," ","9","9","9",".","9","9","9",".","9","9","9",".","9","9","9">>,
      <<"1",".","2",".","3",".","4"," ","t","o"," ","1","0",".","0",".","0",".","5">>,
      <<"c","h","1","c","h","2"," ","1","0",".","0",".","0",".","5">>,
      <<"R","E","C","-","c","h","5","-","d","e","t","a","i","l","s">>,
      <<"a","-","b","-","c">>,
      <<"i","d","l","e">> }

Texts == SeqsUpTo(IpChars, MaxIpText) \cup SeqsUpTo(ChannelChars, MaxText) \cup Samples

TextDvrObjects ==
    {Obj(<< <<"activity", Obj(<< <<"1", Str(t)>> >>)>> >>) : t \in Texts}
    \cup {Obj(<< <<"activity", Obj(<< <<"1", Str(a)>>, <<"2", Str(b)>> >>)>> >>) :
             a \in Samples, b \in Samples}

TextRecObjects == {Obj(<< <<"MyShow1", Str(t)>> >>) : t \in Texts}

\* requests.get has just returned in fetch_dvr of a first cycle, or in
\* fetch_recordings after a fetch_dvr that met no activity and no guide
TextInit ==
    /\ \/ /\ pc = "dvr_json"
          /\ dvr \in {Response(c, TRUE, b) : c \in StatusCodes \cap Success, b \in TextDvrObjects}
          /\ done = {}
       \/ /\ pc = "rec_json"
          /\ dvr \in {Response(c, TRUE, b) : c \in StatusCodes \cap Success, b \in TextRecObjects}
          /\ done = {"fetch_dvr"}
    /\ err = NoErr
    /\ status_data = Nil
    /\ todo = <<>>
    /\ streams = {}
    /\ recordings = {}
    /\ clients = {}
    /\ shows = 0
    /\ airings = 0
    /\ geodb \in [LookupIps -> {"none"}]
    /\ lookups = {}
    /\ left = NothingLeft
    /\ used = NothingUsed
    /\ snap = Registry

TextNext ==
    \/ DvrJson \/ DvrClear \/ DvrActivity \/ DvrShows \/ DvrAirings
    \/ RecJson \/ RecClear \/ RecItems \/ RecRecording \/ RecReturn

TextSpec == TextInit /\ [][TextNext]_vars

(***************************************************************************)
(* Properties                                                              *)
(***************************************************************************)
\* the steps of the poll loop
LoopNext ==
    \/ DvrGet \/ DvrJson \/ DvrClear \/ DvrActivity \/ DvrShows \/ DvrAirings
    \/ RecGet \/ RecJson \/ RecClear \/ RecItems \/ RecRecording \/ RecReturn
    \/ CliGet \/ CliJson \/ CliClear \/ CliClient \/ CliReturn
    \/ Sleep

FetchFailures == {"ConnectionError", "JSONDecodeError"}

\* C1: whenever a scrape can read a family that the poll loop is repopulating,
\* it observes at least as many entries as the smaller of the family's count
\* before the clear() and its count after the repopulation.
C1_ScrapeNeverBelowBothCounts ==
    \A f \in Families :
        (ServerAlive /\ Repopulating(f)) =>
            Cardinality(Observed(f)) >= Min(Cardinality(Before(f)), Cardinality(After(f)))

\* C2: the poll loop has no terminated state: whatever a sub-step met, the
\* main thread is still in run_metrics_loop.
C2_LoopNeverTerminates == pc # "exited"

\* C3: after a failure in any one sub-step the loop can still take a step, so
\* the sub-steps after it in the cycle, and the later cycles, are executed.
C3_FailureLeavesOthersRunning ==
    \A s \in SubSteps : err.in = s => ENABLED LoopNext

\* C4: when the GET or the JSON decode of a sub-step has failed, every gauge
\* holds exactly what it held when that sub-step started.
C4_FetchFailureKeepsPriorValues ==
    err.exc \in FetchFailures => Registry = snap

\* C4 witness: a decode failure of /dvr/programs met a non-empty channels_recordings
C4_Witness ==
    /\ err = [in |-> "fetch_recordings", exc |-> "JSONDecodeError"]
    /\ recordings # {}

\* C5: a response whose status is no success is a fetch failure: while the
\* sub-step holds it, the loop gets no further than the decode and the
\* registry is as it was when the sub-step started.
C5_NonSuccessBodyNeverUsed ==
    (dvr # NoResponse /\ dvr.status_code \notin Success) =>
        /\ pc \in {"dvr_json", "rec_json", "cli_json", "exited"}
        /\ Registry = snap

\* C6: when a sub-step has returned, its family holds exactly the label
\* combinations of the records of the response it decoded (each present with
\* value 1), whatever it held before.
C6_FamilyEqualsResponseRecords ==
    /\ pc = "rec_get" =>
          streams = StreamsOf(Items(Get(used["fetch_dvr"], "activity", Obj(<<>>))))
    /\ pc = "cli_get" =>
          recordings = RecordingsOf(Items(used["fetch_recordings"]))
    /\ pc = "sleep" =>
          clients = ClientsOf(used["fetch_clients"].v)

\* C6 witness: fetch_dvr returned and an entry of the cycle before is gone
C6_Witness ==
    /\ pc = "rec_get"
    /\ snap.streams \ streams # {}
    /\ streams # {}

\* C7: when fetch_clients fails with a decode error, fetch_dvr and
\* fetch_recordings have returned in this cycle and channels_streams and
\* channels_recordings hold what those two refreshes left in them.
C7_ClientsDecodeErrorAfterRefresh ==
    err = [in |-> "fetch_clients", exc |-> "JSONDecodeError"] =>
        /\ {"fetch_dvr", "fetch_recordings"} \subseteq done
        /\ streams = left["fetch_dvr"]
        /\ recordings = left["fetch_recordings"]

\* C7 witness: the decode error came after both families were refreshed to
\* non-empty contents
C7_Witness ==
    /\ err = [in |-> "fetch_clients", exc |-> "JSONDecodeError"]
    /\ streams # {}
    /\ recordings # {}

\* C8: the loop runs /dvr, then /dvr/programs, then /dvr/clients/info, then
\* sleeps: a sub-step is running only when exactly the sub-steps before it have
\* returned in this cycle, and the next cycle starts from the sleep only.
C8_SequentialOrder ==
    /\ pc \in {"dvr_get", "dvr_json", "dvr_clear", "dvr_loop", "dvr_airings"} => done = {}
    /\ pc \in {"rec_get", "rec_json", "rec_clear", "rec_for", "rec_loop"} => done = {"fetch_dvr"}
    /\ pc \in {"cli_get", "cli_json", "cli_clear", "cli_loop"} =>
          done = {"fetch_dvr", "fetch_recordings"}
    /\ pc = "sleep" => done = SubSteps

\* C8 witness: a second cycle is at its sleep
C8_Witness ==
    /\ pc = "sleep"
    /\ done = SubSteps
    /\ snap.clients # {}

\* C9: the scrape-serving path answers in every state, also after a fetch failed.
C9_ScrapeAlwaysEnabled == ENABLED Scrape

\* C10: geolite2.lookup is never called with "127.0.0.1", and a stream whose
\* ip is the loopback default is published with absent latitude and longitude.
C10_NoLookupOfLoopback ==
    /\ LOOPBACK \notin lookups
    /\ \A e \in streams : e.ip = LOOPBACK => (e.latitude = NONE /\ e.longitude = NONE)

\* C10 witness: an activity without an ip was published, next to one that was looked up
C10_Witness ==
    /\ \E e \in streams : e.ip = LOOPBACK
    /\ lookups # {}

\* C11: a lookup that raises or returns no result never ends the fetch_dvr
\* pass: the stream of that activity is published with its ip and channel and
\* with absent latitude and longitude, the loop leaves fetch_dvr only on a
\* fetch failure or a value that is no string, and a pass that returns has
\* published every activity and set shows and airings.
C11_GeoFailureAbsorbed ==
    /\ \A ip \in lookups : GeoOutcome(ip) # "found" =>
          \E e \in streams :
              e.ip = ip /\ e.channel # <<>> /\ e.latitude = NONE /\ e.longitude = NONE
    /\ err.in = "fetch_dvr" =>
          /\ err.exc \in FetchFailures \cup {"AttributeError", "TypeError"}
          /\ err.exc = "TypeError" => (todo # <<>> /\ Head(todo)[2].t # "str")
    /\ pc = "rec_get" =>
          LET acts == Items(Get(used["fetch_dvr"], "activity", Obj(<<>>)))
          IN  /\ \A i \in 1..Len(acts) :
                    \E e \in streams : /\ e.ip = ExtractIp(acts[i][2].v)
                                       /\ e.channel = ExtractChannel(acts[i][2].v)
              /\ shows = GuideCount(used["fetch_dvr"], "num_shows")
              /\ airings = GuideCount(used["fetch_dvr"], "num_airings")

\* C11 witness: the lookup for the first activity raised, and the pass went on
\* to publish the second activity and to set shows
C11_Witness ==
    /\ pc = "rec_get"
    /\ \E ip \in lookups : GeoOutcome(ip) = "raise"
    /\ LET acts == Items(Get(used["fetch_dvr"], "activity", Obj(<<>>)))
       IN  Len(acts) = 2 /\ CallsLookup(ExtractIp(acts[1][2].v))
    /\ Cardinality(streams) = 2
    /\ shows = 40

\* C15: when a fetch_dvr pass has returned, channels_shows and
\* channels_airings hold guide.num_shows and guide.num_airings of the response
\* it decoded, and 0 for a field, or a whole guide, that the response lacks.
C15_GuideCountsFollowResponse ==
    pc = "rec_get" =>
        LET sd == used["fetch_dvr"]
            guide == IF HasKey(sd, "guide") THEN Get(sd, "guide", Nil) ELSE Obj(<<>>)
        IN  /\ shows = IF HasKey(guide, "num_shows")
                       THEN NumVal(Get(guide, "num_shows", Nil).v) ELSE 0
            /\ airings = IF HasKey(guide, "num_airings")
                         THEN NumVal(Get(guide, "num_airings", Nil).v) ELSE 0

\* C15 witness: a response without a guide has brought shows back from 40 to 0
C15_Witness ==
    /\ pc = "rec_get"
    /\ ~HasKey(used["fetch_dvr"], "guide")
    /\ snap.shows = 40
    /\ shows = 0

\* C16, as the specification states it: when a fetch_clients pass has
\* returned, channels_clients has as many entries as the response has client
\* objects.
C16_ClientsCountEqualsObjects ==
    pc = "sleep" => Cardinality(clients) = Len(used["fetch_clients"].v)

\* C16, amended: when a fetch_clients pass has returned, channels_clients has
\* one entry for each distinct combination of the twelve label values among
\* the client objects of the response: never more entries than objects, none
\* only for an empty response, and as many as objects exactly when no two
\* objects publish the same twelve values.
C16_ClientsCountDistinctLabels ==
    pc = "sleep" =>
        LET objs == used["fetch_clients"].v
            same(i, j) == \A k \in 1..Len(ClientFields) :
                              LabelStr(Get(objs[i], ClientFields[k], Null))
                                  = LabelStr(Get(objs[j], ClientFields[k], Null))
        IN  /\ Cardinality(clients) <= Len(objs)
            /\ clients = {} <=> objs = <<>>
            /\ Cardinality(clients) = Len(objs)
                   <=> \A i, j \in 1..Len(objs) : i # j => ~same(i, j)

\* C16 witness: a response of two client objects left one entry
C16_Witness ==
    /\ pc = "sleep"
    /\ Len(used["fetch_clients"].v) = 2
    /\ Cardinality(clients) = 1

\* C17: when a fetch_clients pass has returned, a client object whose field is
\* absent or null and a client object whose same field holds a non-empty
\* string are two entries of channels_clients that differ in that label.
C17_AbsentFieldDistinguishable ==
    pc = "sleep" =>
        LET objs == used["fetch_clients"].v
        IN  \A i, j \in 1..Len(objs) : \A k \in 1..Len(ClientFields) :
                (/\ Get(objs[i], ClientFields[k], Null).t = "null"
                 /\ Get(objs[j], ClientFields[k], Null).t = "str"
                 /\ Get(objs[j], ClientFields[k], Null).v # <<>>)
                => \E a, b \in clients : a[ClientFields[k]] # b[ClientFields[k]]

\* C18: a sub-step that a response has made raise leaves every family as it
\* was when the sub-step started: no family is left cleared or partly
\* repopulated.
C18_RaisingSubStepLeavesFamilies ==
    pc = "exited" =>
        /\ streams = snap.streams
        /\ recordings = snap.recordings
        /\ clients = snap.clients

\* four groups of one or more decimal digits, separated by three dots
IsIpShape(x) ==
    LET dots == {i \in 1..Len(x) : x[i] = "."}
    IN  /\ Cardinality(dots) = 3
        /\ \A i \in (1..Len(x)) \ dots : x[i] \in Digits
        /\ \A i \in dots : i - 1 \in (1..Len(x)) \ dots /\ i + 1 \in (1..Len(x)) \ dots

\* "ch" and one or more decimal digits
IsChannelShape(x) ==
    /\ Len(x) >= 3
    /\ x[1] = "c" /\ x[2] = "h"
    /\ \A i \in 3..Len(x) : x[i] \in Digits

\* the substrings s[i..j] of s that have the shape of an ip, and of a channel,
\* as <<i, j>>
Substrings(s) == {p \in (1..Len(s)) \X (1..Len(s)) : p[1] <= p[2]}
IpMatches(s) == {p \in Substrings(s) : IsIpShape(Slice(s, p[1], p[2]))}
ChannelMatches(s) == {p \in Substrings(s) : IsChannelShape(Slice(s, p[1], p[2]))}

\* x is what re.search returns in s for a pattern whose matches are m: the
\* match that starts leftmost, taken as long as the pattern allows; or the
\* default when nothing in s matches
IsFirstMatch(s, m, default, x) ==
    IF m = {} THEN x = default
    ELSE \E p \in m :
            /\ x = Slice(s, p[1], p[2])
            /\ \A q \in m : p[1] < q[1] \/ (p[1] = q[1] /\ q[2] <= p[2])

\* x is the ip, and the channel, that re.search finds in s
IsIpOf(s, x) == IsFirstMatch(s, IpMatches(s), LOOPBACK, x)
IsChannelOf(s, x) == IsFirstMatch(s, ChannelMatches(s), CH0, x)

\* x is s up to its first '-', or "unknown" when s has none
IsStatusOf(s, x) ==
    IF \E k \in 1..Len(s) : s[k] = "-"
    THEN \E k \in 1..Len(s) :
            /\ s[k] = "-"
            /\ \A m \in 1..(k - 1) : s[m] # "-"
            /\ x = Slice(s, 1, k - 1)
    ELSE x = UNKNOWN

\* the activity items, and the recording items, of the response just decoded
UsedActivities == Items(Get(used["fetch_dvr"], "activity", Obj(<<>>)))
UsedRecordings == Items(used["fetch_recordings"])

\* C12: for every info string, the status published for a recording is the
\* part of the string before its first '-', and "unknown" when the string has
\* no '-'.
C12_StatusIsPrefixBeforeFirstDash ==
    pc = "cli_get" =>
        /\ \A k \in 1..Len(UsedRecordings) : \E e \in recordings :
               /\ e.name = UsedRecordings[k][1]
               /\ IsStatusOf(UsedRecordings[k][2].v, e.status)
        /\ \A e \in recordings : \E k \in 1..Len(UsedRecordings) :
               /\ e.name = UsedRecordings[k][1]
               /\ IsStatusOf(UsedRecordings[k][2].v, e.status)

\* C12 witness: an info string with two dashes was published with the
\* non-empty part before the first one
C12_Witness ==
    /\ pc = "cli_get"
    /\ \E k \in 1..Len(UsedRecordings) :
          Cardinality({i \in 1..Len(UsedRecordings[k][2].v) : UsedRecordings[k][2].v[i] = "-"}) = 2
    /\ \E e \in recordings : e.status # <<>> /\ e.status # UNKNOWN

\* C13: the ip published for an activity is the leftmost substring of its
\* text made of four dot-separated groups of decimal digits, whatever the
\* numbers are, and "127.0.0.1" when the text has no such substring.
C13_IpIsLeftmostDottedQuad ==
    pc = "rec_get" =>
        /\ \A k \in 1..Len(UsedActivities) : \E e \in streams :
               IsIpOf(UsedActivities[k][2].v, e.ip)
        /\ \A e \in streams : \E k \in 1..Len(UsedActivities) :
               IsIpOf(UsedActivities[k][2].v, e.ip)

\* C13 witness: 999.999.999.999 was published as it stands, next to the first
\* of the two addresses of "1.2.3.4 to 10.0.0.5"
C13_Witness ==
    /\ pc = "rec_get"
    /\ \E e \in streams : e.ip = <<"9","9","9",".","9","9","9",".","9","9","9",".","9","9","9">>
    /\ \E e \in streams : e.ip = <<"1",".","2",".","3",".","4">>

\* C14: the channel published for an activity, and for a recording, is the
\* leftmost "ch" followed by digits in the text, and "ch0" when the text has
\* none: the two sub-steps apply one rule.
C14_ChannelIsLeftmostChDigits ==
    /\ pc = "rec_get" =>
          /\ \A k \in 1..Len(UsedActivities) : \E e \in streams :
                 IsChannelOf(UsedActivities[k][2].v, e.channel)
          /\ \A e \in streams : \E k \in 1..Len(UsedActivities) :
                 IsChannelOf(UsedActivities[k][2].v, e.channel)
    /\ pc = "cli_get" =>
          /\ \A k \in 1..Len(UsedRecordings) : \E e \in recordings :
                 /\ e.name = UsedRecordings[k][1]
                 /\ IsChannelOf(UsedRecordings[k][2].v, e.channel)
          /\ \A e \in recordings : \E k \in 1..Len(UsedRecordings) :
                 /\ e.name = UsedRecordings[k][1]
                 /\ IsChannelOf(UsedRecordings[k][2].v, e.channel)

\* C14 witness: "ch12 from 999.999.999.999" gave ch12 and "ch1ch2 10.0.0.5" gave ch1
C14_Witness ==
    /\ pc = "rec_get"
    /\ \E e \in streams : e.channel = <<"c","h","1","2">>
    /\ \E e \in streams : e.channel = <<"c","h","1">>

\* C20: the guard of line 87 never fails: every entry of channels_streams has
\* a non-empty ip and a non-empty channel, every activity the loop has got
\* through has its entry, and activities with the same ip and channel share
\* one, so that the family never has more entries than activities.
C20_EveryActivityIsPublished ==
    /\ \A e \in streams : e.ip # <<>> /\ e.channel # <<>>
    /\ pc \in {"dvr_loop", "dvr_airings", "rec_get"} =>
          LET n == Len(UsedActivities) - Len(todo)
          IN  /\ Cardinality(streams) <= n
              /\ \A k \in 1..n : \E e \in streams :
                     /\ e.ip = ExtractIp(UsedActivities[k][2].v)
                     /\ e.channel = ExtractChannel(UsedActivities[k][2].v)

\* C20 witness: two activities without ip and channel share the one entry of
\* the defaults
C20_Witness ==
    /\ pc = "rec_get"
    /\ Len(UsedActivities) = 2
    /\ streams = {[ip |-> LOOPBACK, channel |-> CH0, latitude |-> NONE, longitude |-> NONE]}

\* C19: when no sub-step ever raises and every requests.get returns, each of
\* the three sub-steps returns infinitely often and the loop sleeps infinitely
\* often; and while a requests.get has not returned, the only step of the
\* loop is that return: no later sub-step and no later cycle starts.
C19_EveryCycleRefreshesAll ==
    /\ ([](pc # "exited") /\ []<>(~Fetching)) =>
          /\ []<>(pc = "rec_get" /\ done = {"fetch_dvr"})
          /\ []<>(pc = "cli_get" /\ done = {"fetch_dvr", "fetch_recordings"})
          /\ []<>(pc = "sleep" /\ done = SubSteps)
    /\ [][Fetching => (pc' # pc /\ done' = done /\ gauges' = gauges)]_vars

\* C19 witness: a later cycle starts refreshing channels_streams, the three
\* families holding what the cycle before published
C19_Witness ==
    /\ pc = "dvr_clear"
    /\ streams # {}
    /\ recordings # {}
    /\ clients # {}

====
